---- MODULE Spec2Model ----
(***************************************************************************)
(* Mandelbrot-Set: draw_mandelbrot, event_parser, transform_input,         *)
(* set_pixels, set_pixel_color and load_color_table of source/draw.cpp,    *)
(* with the constants of configs.hpp.                                      *)
(*                                                                         *)
(* A C float is an IEEE-754 binary32 value, held here as its bit pattern:  *)
(* the 31 magnitude bits (8 bits of biased exponent, 23 bits of fraction)  *)
(* as a natural number, negated for a negative value.  The arithmetic      *)
(* below is the correctly rounded (round-to-nearest, ties-to-even)         *)
(* arithmetic of mulss/addss/subss/divss and of their _mm256_*_ps forms,   *)
(* gradual underflow and overflow to infinity included.  The sign of a     *)
(* zero and the payload of a NaN are not kept: nothing in draw.cpp can     *)
(* tell them apart.                                                        *)
(***************************************************************************)
EXTENDS Integers, Sequences, FiniteSets, TLC

Abs(n) == IF n < 0 THEN -n ELSE n

Max(a, b) == IF a > b THEN a ELSE b

P2(n) == 2 ^ n

MANT_BITS == 24

HIDDEN == P2(23)

EMIN == -149

PInf == 255 * HIDDEN

NInf == -PInf

NaN == PInf + P2(22)

IsNaN(f) == Abs(f) > PInf

IsInf(f) == Abs(f) = PInf

IsFinite(f) == Abs(f) < PInf

Sgn(f) == IF f < 0 THEN -1 ELSE 1

\* The significand and the exponent of a finite f: |f| = Mant(f) * 2^Expo(f).
Mant(f) == IF Abs(f) \div HIDDEN = 0 THEN Abs(f) % HIDDEN ELSE (Abs(f) % HIDDEN) + HIDDEN

Expo(f) == Max(Abs(f) \div HIDDEN, 1) - 150

\* The number of bits of n >= 0, a byte at a time while n has more than one.
RECURSIVE BitLen(_)
BitLen(n) ==
    IF n = 0 THEN 0
    ELSE IF n >= 256 THEN 8 + BitLen(n \div 256)
    ELSE 1 + BitLen(n \div 2)

\* The bits that a subnormal's significand is short of MANT_BITS.
NormShift(f) == IF Abs(f) >= HIDDEN THEN 0 ELSE MANT_BITS - BitLen(Mant(f))

\* A non-zero significand shifted up to MANT_BITS bits, and the exponent that goes with it.
NormM(f) == Mant(f) * P2(NormShift(f))

NormE(f) == Expo(f) - NormShift(f)

\* sgn * M * 2^E (0 <= M < 2^30) rounded to the nearest binary32, ties to even.
\* An odd M may stand for a value strictly between M-1 and M+1 (a sticky last
\* bit) when at least two of its bits are rounded away.
RoundPack(sgn, M, E) ==
    IF M = 0 THEN 0
    ELSE LET et == Max((E + BitLen(M)) - MANT_BITS, EMIN)
             sh == et - E
             q0 == IF sh <= 0 THEN M * P2(-sh) ELSE IF sh > 30 THEN 0 ELSE M \div P2(sh)
             r  == IF sh <= 0 \/ sh > 30 THEN 0 ELSE M % P2(sh)
             up == sh >= 1 /\ sh <= 30
                   /\ (r > P2(sh - 1) \/ (r = P2(sh - 1) /\ q0 % 2 = 1))
             q1 == IF up THEN q0 + 1 ELSE q0
             q  == IF q1 = P2(MANT_BITS) THEN HIDDEN ELSE q1
             e  == IF q1 = P2(MANT_BITS) THEN et + 1 ELSE et
         IN  IF q < HIDDEN THEN sgn * q
             ELSE IF e + 150 >= 255 THEN sgn * PInf
             ELSE sgn * (((e + 150) * HIDDEN) + (q - HIDDEN))

\* The int n (|n| < 2^30) converted to float.
FInt(n) == RoundPack(IF n < 0 THEN -1 ELSE 1, Abs(n), 0)

FNeg(a) == IF IsNaN(a) THEN NaN ELSE -a

\* The 48-bit product of two 24-bit significands, cut to 26 bits and a sticky bit.
MulSig(ma, mb) ==
    LET ah == ma \div P2(12)
        al == ma % P2(12)
        bh == mb \div P2(12)
        bl == mb % P2(12)
        mid == (ah * bl) + (al * bh)
        los == (al * bl) + ((mid % P2(12)) * P2(12))
        lo == los % P2(24)
        hi == (ah * bh) + (mid \div P2(12)) + (los \div P2(24))
    IN  (((hi * 4) + (lo \div P2(22))) * 2) + (IF lo % P2(22) = 0 THEN 0 ELSE 1)

FMul(a, b) ==
    IF IsNaN(a) \/ IsNaN(b) THEN NaN
    ELSE IF IsInf(a) \/ IsInf(b)
         THEN IF a = 0 \/ b = 0 THEN NaN ELSE Sgn(a) * Sgn(b) * PInf
    ELSE IF a = 0 \/ b = 0 THEN 0
    ELSE RoundPack(Sgn(a) * Sgn(b), MulSig(NormM(a), NormM(b)), (NormE(a) + NormE(b)) + 21)

\* m shifted right by d bits, the bits shifted out kept as a sticky last bit.
ShiftJam(m, d) ==
    IF d = 0 THEN m
    ELSE IF d > 30 THEN 1
    ELSE LET q == m \div P2(d)
         IN  IF m % P2(d) = 0 \/ q % 2 = 1 THEN q ELSE q + 1

\* a + b for finite non-zero a, b with NormE(a) >= NormE(b).
AddOrdered(a, b) ==
    LET s == (Sgn(a) * NormM(a) * 8) + (Sgn(b) * ShiftJam(NormM(b) * 8, NormE(a) - NormE(b)))
    IN  RoundPack(IF s < 0 THEN -1 ELSE 1, Abs(s), NormE(a) - 3)

FAdd(a, b) ==
    IF IsNaN(a) \/ IsNaN(b) THEN NaN
    ELSE IF IsInf(a) THEN (IF IsInf(b) /\ a # b THEN NaN ELSE a)
    ELSE IF IsInf(b) THEN b
    ELSE IF a = 0 THEN b
    ELSE IF b = 0 THEN a
    ELSE IF NormE(a) >= NormE(b) THEN AddOrdered(a, b) ELSE AddOrdered(b, a)

FSub(a, b) == FAdd(a, FNeg(b))

\* n more quotient bits of r / mb (r < mb), appended to q.
RECURSIVE DivBits(_, _, _, _)
DivBits(r, mb, q, n) ==
    IF n = 0 THEN <<q, r>>
    ELSE IF 2 * r >= mb THEN DivBits((2 * r) - mb, mb, (2 * q) + 1, n - 1)
    ELSE DivBits(2 * r, mb, 2 * q, n - 1)

\* floor(ma * 2^26 / mb) for 24-bit significands, the remainder kept as a sticky last bit.
DivSig(ma, mb) ==
    LET qr == DivBits(ma % mb, mb, ma \div mb, 26)
    IN  IF qr[2] = 0 \/ qr[1] % 2 = 1 THEN qr[1] ELSE qr[1] + 1

FDiv(a, b) ==
    IF IsNaN(a) \/ IsNaN(b) THEN NaN
    ELSE IF IsInf(a) THEN (IF IsInf(b) THEN NaN ELSE Sgn(a) * Sgn(b) * PInf)
    ELSE IF IsInf(b) THEN 0
    ELSE IF b = 0 THEN (IF a = 0 THEN NaN ELSE Sgn(a) * PInf)
    ELSE IF a = 0 THEN 0
    ELSE RoundPack(Sgn(a) * Sgn(b), DivSig(NormM(a), NormM(b)), (NormE(a) - NormE(b)) - 26)

\* a < b as the ordered comparisons (ucomiss, _CMP_LT_OS) decide it: false on a NaN.
FLt(a, b) == ~IsNaN(a) /\ ~IsNaN(b) /\ a < b

FGt(a, b) == FLt(b, a)


(***************************************************************************)
(* configs.hpp.  The screen is 1080 x 1080 there, 135 batches of 8 lanes   *)
(* to a row; here it is RowBatches batches wide and Rows rows high, and    *)
(* everything that the source derives from the screen size (RMAX, the      *)
(* pixel steps, the buffer size) is derived from it in the same way.       *)
(***************************************************************************)
RowBatches == 3

Rows == 3

LANES == 8

Lanes == 0 .. (LANES - 1)

SCREEN_W == LANES * RowBatches

SCREEN_H == Rows

RMAX == FMul(FInt(4), FInt(SCREEN_W))

NMAX == 255

MOVE_FACTOR == FDiv(FInt(5), FInt(100))

ZOOM_FACTOR == FDiv(FInt(5), FInt(10))

POSSIBLE_COLORS == 16

CENTER_X == FDiv(FInt(-75), FInt(100))

CENTER_Y == FInt(0)

SET_W == FDiv(FInt(35), FInt(10))

SET_H == FDiv(FInt(35), FInt(10))

\* EXIT_CODES
OK == 0

INVALID_ARG == 1

ALLOC_FAIL == 2

FILE_NOT_FOUND == 3

INVALID_FORMAT == 4

\* The literals 0.5f, 2.0f and 8.0f of set_pixels.
HALF == FDiv(FInt(1), FInt(2))

TWO == FInt(2)

EIGHT == FInt(8)

\* A null pointer, and a pixel buffer or a color table as the sequence of its elements.
NULL == <<>>

BUFFER_SIZE == SCREEN_W * SCREEN_H * 4

ZeroBuffer == [o \in 1 .. BUFFER_SIZE |-> 0]

ZeroTable == [k \in 1 .. POSSIBLE_COLORS |-> <<0, 0, 0>>]

VARIABLES
    pc,            \* where control is
    window,        \* "none" before the sf::RenderWindow exists, then "open" or "closed"
    opened,        \* whether a window has ever been opened
    ret,           \* the value draw_mandelbrot returned, -1 before it returns
    color_table,   \* IterColor *color_table: NULL or POSSIBLE_COLORS triples
    fps_buffer,    \* whether the FPS buffer is allocated
    file,          \* the tokens of the color table file being read
    have_file,     \* whether load_color_table opened the file
    ct_i,          \* the loop index i of load_color_table
    lct_ret,       \* the value load_color_table returned, -1 before it returns
    center_x, center_y, set_w, set_h,   \* Transform
    zin_from,      \* the Transform before the latest event, when that event was a zoom-in
    zio_from,      \* the Transform before the latest two events, when they were a zoom-in, then a zoom-out
    events,        \* events polled so far
    pans,          \* arrow keys handled so far
    calls,         \* calls of set_pixels so far
    y, x,          \* the row and column counters of set_pixels
    y0, x0,        \* float y0 and __m256 x0 of set_pixels
    x_i, y_i, N,   \* the lockstep loop's vectors
    iters,         \* passes of the lockstep loop in this batch
    escaped,       \* lanes whose escape test has been true in this batch
    lane,          \* the index i of the write loop
    lastN,         \* the N of the latest call of set_pixel_color
    buffer,        \* uint8_t *pixels: NULL or BUFFER_SIZE bytes
    buf,           \* the offset of set_pixels' moving buffer pointer
    wlog,          \* the offsets set_pixel_color was called with, in order
    oob            \* whether a write landed outside the buffer

vars == <<pc, window, opened, ret, color_table, fps_buffer, file, have_file, ct_i, lct_ret,
          center_x, center_y, set_w, set_h, zin_from, zio_from, events, pans, calls,
          y, x, y0, x0, x_i, y_i, N, iters, escaped, lane, lastN, buffer, buf, wlog, oob>>

startupVars == <<window, opened, ret, fps_buffer, file, have_file, ct_i, lct_ret>>

transformVars == <<center_x, center_y, set_w, set_h>>

inputVars == <<zin_from, zio_from, events, pans>>

loopVars == <<x_i, y_i, N, iters, escaped>>

frameVars == <<y, x, y0, x0, lane, lastN, buf, wlog, oob>>

(***************************************************************************)
(* set_pixels                                                              *)
(***************************************************************************)
Splat(v) == [i \in Lanes |-> v]

VAdd(a, b) == [i \in Lanes |-> FAdd(a[i], b[i])]

VSub(a, b) == [i \in Lanes |-> FSub(a[i], b[i])]

VMul(a, b) == [i \in Lanes |-> FMul(a[i], b[i])]

DeltaX(w) == FDiv(w, FInt(SCREEN_W))

DeltaY(h) == FDiv(h, FInt(SCREEN_H))

\* _mm256_set_ps lists its elements from the highest down: element 7 is the
\* literal 0.0f, element 6 is delta_x, element k is (7-k) * delta_x.
LaneOffsets(dx) == [i \in Lanes |-> IF i = 7 THEN 0 ELSE IF i = 6 THEN dx ELSE FMul(FInt(7 - i), dx)]

BatchX0(base, dx) == VAdd(Splat(base), LaneOffsets(dx))

RowX0(cx, w) == BatchX0(FSub(cx, FMul(HALF, w)), DeltaX(w))

\* res1: the lanes with x2 + y2 < RMAX * RMAX (_CMP_LT_OS: false on a NaN).
Res1(xi, yi) ==
    [i \in Lanes |-> FLt(FAdd(FMul(xi[i], xi[i]), FMul(yi[i], yi[i])), FMul(RMAX, RMAX))]

\* N after _mm256_add_epi32(N, res1 & 1).
MaskedIncNoMask(n, res1) == [i \in Lanes |-> n[i] + 1]

MaskedInc(n, res1) == [i \in Lanes |-> IF res1[i] THEN n[i] + 1 ELSE n[i]]

\* !_mm256_testz_si256(res2, ...): some lane's N equals NMAX.
AnyAtMaxNever(n) == FALSE

AnyAtMax(n) == \E i \in Lanes : n[i] = NMAX

NextXi(xi, yi, x0v) == VAdd(VSub(VMul(xi, xi), VMul(yi, yi)), x0v)

NextYi(xi, yi, y0s) == VAdd(VMul(VMul(xi, yi), Splat(TWO)), Splat(y0s))

\* set_pixel_color: the four bytes it stores for N.
PixelBytesInclusive(table, n) ==
    IF 0 < n /\ n <= NMAX
    THEN <<table[(n % POSSIBLE_COLORS) + 1][1], table[(n % POSSIBLE_COLORS) + 1][2],
           table[(n % POSSIBLE_COLORS) + 1][3], 255>>
    ELSE <<0, 0, 0, 255>>

PixelBytes(table, n) ==
    IF 0 < n /\ n < NMAX
    THEN <<table[(n % POSSIBLE_COLORS) + 1][1], table[(n % POSSIBLE_COLORS) + 1][2],
           table[(n % POSSIBLE_COLORS) + 1][3], 255>>
    ELSE <<0, 0, 0, 255>>

\* The palette index set_pixel_color reads for N, -1 when it reads none.
PaletteIndex(n) == IF 0 < n /\ n < NMAX THEN n % POSSIBLE_COLORS ELSE -1

\* buffer[0..3] = bytes at offset off; a store past the end is not kept.
Store(b, off, bytes) ==
    [o \in 1 .. BUFFER_SIZE |-> IF o - 1 >= off /\ o - 1 < off + 4 THEN bytes[o - off] ELSE b[o]]

\* The lane whose count the write loop passes at index i: (tmpN.int_arr)[i].
WrittenLaneReversed(i) == 7 - i

WrittenLane(i) == i

\* x += 8
ColumnStepHalf == LANES \div 2

ColumnStep == LANES

SetPixelsEntry ==
    /\ pc = "sp_entry"
    /\ y0' = FSub(center_y, FMul(HALF, set_h))
    /\ y' = 0
    /\ pc' = "sp_row"
    /\ UNCHANGED <<startupVars, transformVars, inputVars, loopVars, color_table, calls,
                   x, x0, lane, lastN, buffer, buf, wlog, oob>>

RowBegin ==
    /\ pc = "sp_row"
    /\ IF y < SCREEN_H
       THEN /\ x0' = RowX0(center_x, set_w)
            /\ x' = 0
            /\ pc' = "sp_batch"
       ELSE /\ pc' = "sp_done"
            /\ UNCHANGED <<x0, x>>
    /\ UNCHANGED <<startupVars, transformVars, inputVars, loopVars, color_table, calls,
                   y, y0, lane, lastN, buffer, buf, wlog, oob>>

BatchBegin ==
    /\ pc = "sp_batch"
    /\ IF x < SCREEN_W
       THEN /\ x_i' = x0
            /\ y_i' = Splat(y0)
            /\ N' = Splat(0)
            /\ iters' = 0
            /\ escaped' = {}
            /\ pc' = "sp_loop"
            /\ UNCHANGED <<y, y0>>
       ELSE /\ y0' = FAdd(y0, DeltaY(set_h))
            /\ y' = y + 1
            /\ pc' = "sp_row"
            /\ UNCHANGED loopVars
    /\ UNCHANGED <<startupVars, transformVars, inputVars, color_table, calls,
                   x, x0, lane, lastN, buffer, buf, wlog, oob>>

LoopIter ==
    /\ pc = "sp_loop"
    /\ LET res1 == Res1(x_i, y_i)
           n1 == MaskedInc(N, res1)
       IN  /\ iters' = iters + 1
           /\ escaped' = escaped \cup {i \in Lanes : ~res1[i]}
           /\ IF \A i \in Lanes : ~res1[i]
              THEN /\ pc' = "sp_write"
                   /\ lane' = 7
                   /\ UNCHANGED <<N, x_i, y_i>>
              ELSE /\ N' = n1
                   /\ IF AnyAtMax(n1)
                      THEN /\ pc' = "sp_write"
                           /\ lane' = 7
                           /\ UNCHANGED <<x_i, y_i>>
                      ELSE /\ x_i' = NextXi(x_i, y_i, x0)
                           /\ y_i' = NextYi(x_i, y_i, y0)
                           /\ UNCHANGED <<pc, lane>>
    /\ UNCHANGED <<startupVars, transformVars, inputVars, color_table, calls,
                   y, x, y0, x0, lastN, buffer, buf, wlog, oob>>

\* One pass of the write loop; the pass for i = 0 is followed by the end of the
\* batch (x0 += 8 * delta_x, x += 8).
WritePixel ==
    /\ pc = "sp_write"
    /\ lane >= 0
    /\ IF buf + 4 <= BUFFER_SIZE
       THEN /\ buffer' = Store(buffer, buf, PixelBytes(color_table, N[WrittenLane(lane)]))
            /\ UNCHANGED oob
       ELSE /\ oob' = TRUE
            /\ UNCHANGED buffer
    /\ wlog' = Append(wlog, buf)
    /\ lastN' = N[WrittenLane(lane)]
    /\ buf' = buf + 4
    /\ IF lane > 0
       THEN /\ lane' = lane - 1
            /\ UNCHANGED <<pc, x0, x>>
       ELSE /\ lane' = -1
            /\ x0' = VAdd(x0, Splat(FMul(EIGHT, DeltaX(set_w))))
            /\ x' = x + ColumnStep
            /\ pc' = "sp_batch"
    /\ UNCHANGED <<startupVars, transformVars, inputVars, loopVars, color_table, calls, y, y0>>


(***************************************************************************)
(* transform_input                                                         *)
(***************************************************************************)
\* An sf::Event: its type, then the key code, or the wheel and the sign of delta.
ArrowKeys == {"Up", "Down", "Left", "Right"}

KeyEvents == {<<"KeyPressed", k>> : k \in ArrowKeys \cup {"Space"}}

WheelEvents == {<<"MouseWheelScrolled", w, d>> : w \in {"VerticalWheel", "HorizontalWheel"}, d \in {-1, 0, 1}}

OtherEvents == {<<"MouseMoved">>}

TransformEvents == KeyEvents \cup WheelEvents \cup OtherEvents

IsZoomIn(ev) == ev = <<"MouseWheelScrolled", "VerticalWheel", 1>>

IsZoomOut(ev) == ev = <<"MouseWheelScrolled", "VerticalWheel", -1>>

\* The Transform <<center_x, center_y, set_w, set_h>> after transform_input(ev, t).
TransformInput(ev, t) ==
    IF ev[1] = "KeyPressed"
    THEN CASE ev[2] = "Up"    -> <<t[1], FSub(t[2], FMul(MOVE_FACTOR, t[4])), t[3], t[4]>>
           [] ev[2] = "Down"  -> <<t[1], FAdd(t[2], FMul(MOVE_FACTOR, t[4])), t[3], t[4]>>
           [] ev[2] = "Left"  -> <<FSub(t[1], FMul(MOVE_FACTOR, t[3])), t[2], t[3], t[4]>>
           [] ev[2] = "Right" -> <<FAdd(t[1], FMul(MOVE_FACTOR, t[3])), t[2], t[3], t[4]>>
           [] OTHER -> t
    ELSE IF ev[1] = "MouseWheelScrolled"
    THEN IF ev[2] = "VerticalWheel"
         THEN IF ev[3] > 0
              THEN <<t[1], t[2], FMul(t[3], ZOOM_FACTOR), FMul(t[4], ZOOM_FACTOR)>>
              ELSE <<t[1], t[2], FDiv(t[3], ZOOM_FACTOR), FDiv(t[4], ZOOM_FACTOR)>>
         ELSE t
    ELSE t

\* Transform transform = {}
DefaultTransform == <<CENTER_X, CENTER_Y, SET_W, SET_H>>

RECURSIVE ReachableTransforms(_)
ReachableTransforms(n) ==
    IF n = 0 THEN {DefaultTransform}
    ELSE LET R == ReachableTransforms(n - 1)
         IN  R \cup {TransformInput(ev, t) : ev \in TransformEvents, t \in R}

\* The variables of the parts of the program that a specification leaves at rest.
IdleStartup ==
    /\ window = "open"
    /\ opened = TRUE
    /\ ret = -1
    /\ fps_buffer = TRUE
    /\ file = <<>>
    /\ have_file = FALSE
    /\ ct_i = POSSIBLE_COLORS
    /\ lct_ret = OK

IdleInput ==
    /\ zin_from = NULL
    /\ zio_from = NULL
    /\ events = 0
    /\ pans = 0

IdleLoop ==
    /\ x_i = Splat(0)
    /\ y_i = Splat(0)
    /\ N = Splat(0)
    /\ iters = 0
    /\ escaped = {}

IdleFrame ==
    /\ y = 0
    /\ x = 0
    /\ y0 = 0
    /\ x0 = Splat(0)
    /\ lane = -1
    /\ lastN = 0
    /\ buf = 0
    /\ wlog = <<>>
    /\ oob = FALSE

\* A color table as load_color_table leaves it: 16 distinct non-black colors.
RenderTable == [k \in 1 .. POSSIBLE_COLORS |-> <<(16 * k) - 1, 256 - (16 * k), k>>]

(***************************************************************************)
(* load_color_table                                                        *)
(***************************************************************************)
\* The color table file as fscanf sees it: whitespace-separated tokens, each
\* <<"num", v>> (an integer in decimal) or <<"junk", 0>> (anything else).
ExtraTokens == 1

MaxTokens == (3 * POSSIBLE_COLORS) + ExtraTokens

GoodValue(k) == (37 * k) % 256

DefectTokens == {<<"junk", 0>>, <<"num", 300>>}

\* len tokens, all well-formed byte values but the d-th (none when d = 0).
MakeFile(len, d, tok) == [k \in 1 .. len |-> IF k = d THEN tok ELSE <<"num", GoodValue(k)>>]

Files == {MakeFile(len, d, tok) : len \in 0 .. MaxTokens, d \in 0 .. MaxTokens, tok \in DefectTokens}

\* What one fscanf("%hhu %hhu %hhu") at token pos + 1 returns short of EOF's
\* sign: the conversions done, each needing a numeric token.
RECURSIVE ScanCount(_, _, _)
ScanCount(f, pos, want) ==
    IF want = 0 \/ pos + 1 > Len(f) \/ f[pos + 1][1] # "num" THEN 0
    ELSE 1 + ScanCount(f, pos + 1, want - 1)

\* %hhu stores the converted value in an unsigned char: its low 8 bits.
StoredByte(v) == v % 256

ScannedColor(f, pos) == <<StoredByte(f[pos + 1][2]), StoredByte(f[pos + 2][2]), StoredByte(f[pos + 3][2])>>

(***************************************************************************)
(* draw_mandelbrot                                                         *)
(***************************************************************************)
TEST_NUMBER == 1

MaxEvents == 2

MaxFrames == 2

\* The pixels set_pixels leaves for a Transform (the sp_ actions compute them).
FrameOf(t) == <<"frame", t>>

\* return from draw_mandelbrot with code: window's destructor closes the window.
Return(code) ==
    /\ ret' = code
    /\ window' = "closed"
    /\ pc' = "returned"

CreateWindow ==
    /\ pc = "start"
    /\ window' = "open"
    /\ opened' = TRUE
    /\ pc' = "font"
    /\ UNCHANGED <<ret, color_table, fps_buffer, file, have_file, ct_i, lct_ret,
                   transformVars, inputVars, calls, loopVars, frameVars, buffer>>

LoadFont ==
    /\ pc = "font"
    /\ \E ok \in BOOLEAN :
          IF ok THEN pc' = "alloc_pixels" /\ UNCHANGED <<ret, window>>
          ELSE Return(FILE_NOT_FOUND)
    /\ UNCHANGED <<opened, color_table, fps_buffer, file, have_file, ct_i, lct_ret,
                   transformVars, inputVars, calls, loopVars, frameVars, buffer>>

AllocPixels ==
    /\ pc = "alloc_pixels"
    /\ \E ok \in BOOLEAN :
          IF ok THEN buffer' = ZeroBuffer /\ pc' = "lct_open" /\ UNCHANGED <<ret, window>>
          ELSE Return(ALLOC_FAIL) /\ UNCHANGED buffer
    /\ UNCHANGED <<opened, color_table, fps_buffer, file, have_file, ct_i, lct_ret,
                   transformVars, inputVars, calls, loopVars, frameVars>>

\* load_color_table up to fopen; any non-zero result makes draw_mandelbrot return 1.
LoadOpen ==
    /\ pc = "lct_open"
    /\ \/ /\ lct_ret' = FILE_NOT_FOUND
          /\ Return(1)
          /\ UNCHANGED <<file, have_file>>
       \/ /\ \E f \in Files : file' = f
          /\ have_file' = TRUE
          /\ pc' = "lct_alloc"
          /\ UNCHANGED <<lct_ret, ret, window>>
    /\ UNCHANGED <<opened, color_table, fps_buffer, ct_i,
                   transformVars, inputVars, calls, loopVars, frameVars, buffer>>

LoadAlloc ==
    /\ pc = "lct_alloc"
    /\ \E ok \in BOOLEAN :
          IF ok
          THEN /\ color_table' = ZeroTable
               /\ ct_i' = 0
               /\ pc' = "lct_scan"
               /\ UNCHANGED <<lct_ret, ret, window>>
          ELSE /\ lct_ret' = ALLOC_FAIL
               /\ Return(1)
               /\ UNCHANGED <<color_table, ct_i>>
    /\ UNCHANGED <<opened, fps_buffer, file, have_file,
                   transformVars, inputVars, calls, loopVars, frameVars, buffer>>

\* One pass of the for loop, or what follows it: fclose and return OK.
LoadScan ==
    /\ pc = "lct_scan"
    /\ IF ct_i < POSSIBLE_COLORS
       THEN IF ScanCount(file, 3 * ct_i, 3) # 3
            THEN /\ color_table' = NULL
                 /\ lct_ret' = INVALID_FORMAT
                 /\ Return(1)
                 /\ UNCHANGED <<ct_i, have_file>>
            ELSE /\ color_table' = [color_table EXCEPT ![ct_i + 1] = ScannedColor(file, 3 * ct_i)]
                 /\ ct_i' = ct_i + 1
                 /\ UNCHANGED <<lct_ret, ret, window, pc, have_file>>
       ELSE /\ have_file' = FALSE
            /\ lct_ret' = OK
            /\ pc' = "alloc_fps"
            /\ UNCHANGED <<color_table, ct_i, ret, window>>
    /\ UNCHANGED <<opened, fps_buffer, file,
                   transformVars, inputVars, calls, loopVars, frameVars, buffer>>

AllocFps ==
    /\ pc = "alloc_fps"
    /\ file' = <<>>
    /\ \E ok \in BOOLEAN :
          IF ok THEN fps_buffer' = TRUE /\ pc' = "loop" /\ UNCHANGED <<ret, window>>
          ELSE Return(ALLOC_FAIL) /\ UNCHANGED fps_buffer
    /\ UNCHANGED <<opened, color_table, have_file, ct_i, lct_ret,
                   transformVars, inputVars, calls, loopVars, frameVars, buffer>>

\* while (window.isOpen()), and what follows the loop.
LoopTest ==
    /\ pc = "loop"
    /\ IF window = "open"
       THEN /\ pc' = "events"
            /\ UNCHANGED <<ret, window, fps_buffer, buffer, color_table>>
       ELSE /\ fps_buffer' = FALSE
            /\ buffer' = NULL
            /\ color_table' = NULL
            /\ Return(IF color_table = NULL THEN INVALID_ARG ELSE OK)
    /\ UNCHANGED <<opened, file, have_file, ct_i, lct_ret,
                   transformVars, inputVars, calls, loopVars, frameVars>>

ZinFrom(ev) == IF IsZoomIn(ev) THEN <<center_x, center_y, set_w, set_h>> ELSE NULL

ZioFrom(ev) == IF IsZoomOut(ev) THEN zin_from ELSE NULL

\* event_parser: one pollEvent.
PollEvent ==
    /\ pc = "events"
    /\ \/ /\ calls + TEST_NUMBER < MaxFrames
          /\ pc' = "frame"
          /\ UNCHANGED <<window, transformVars, inputVars>>
       \/ /\ window' = "closed"
          /\ pc' = "frame"
          /\ UNCHANGED <<transformVars, inputVars>>
       \/ /\ events < MaxEvents
          /\ \E ev \in TransformEvents :
                LET t == TransformInput(ev, <<center_x, center_y, set_w, set_h>>)
                IN  /\ center_x' = t[1]
                    /\ center_y' = t[2]
                    /\ set_w' = t[3]
                    /\ set_h' = t[4]
                    /\ zin_from' = ZinFrom(ev)
                    /\ zio_from' = ZioFrom(ev)
          /\ events' = events + 1
          /\ UNCHANGED <<window, pc, pans>>
    /\ UNCHANGED <<opened, ret, color_table, fps_buffer, file, have_file, ct_i, lct_ret,
                   calls, loopVars, frameVars, buffer>>

\* The rest of the loop body: TEST_NUMBER calls of set_pixels, then the image
\* is displayed.
Frame ==
    /\ pc = "frame"
    /\ calls' = calls + TEST_NUMBER
    /\ buffer' = FrameOf(<<center_x, center_y, set_w, set_h>>)
    /\ pc' = "loop"
    /\ UNCHANGED <<startupVars, color_table, transformVars, inputVars, loopVars, frameVars>>

Init ==
    /\ pc = "start"
    /\ window = "none"
    /\ opened = FALSE
    /\ ret = -1
    /\ color_table = NULL
    /\ fps_buffer = FALSE
    /\ file = <<>>
    /\ have_file = FALSE
    /\ ct_i = 0
    /\ lct_ret = -1
    /\ center_x = CENTER_X
    /\ center_y = CENTER_Y
    /\ set_w = SET_W
    /\ set_h = SET_H
    /\ IdleInput
    /\ calls = 0
    /\ IdleLoop
    /\ IdleFrame
    /\ buffer = NULL

Next ==
    \/ CreateWindow
    \/ LoadFont
    \/ AllocPixels
    \/ LoadOpen
    \/ LoadAlloc
    \/ LoadScan
    \/ AllocFps
    \/ LoopTest
    \/ PollEvent
    \/ Frame

Spec == Init /\ [][Next]_vars

(***************************************************************************)
(* The events that transform_input handles, from the default Transform.    *)
(***************************************************************************)
MaxPans == 1

MaxInputEvents == 8

DeepStart == 146

\* The Transform after n zoom-in events from t (none changes an extent of 0),
\* halved so that the evaluation stays shallow.
RECURSIVE ZoomedInFrom(_, _)
ZoomedInFrom(t, n) ==
    IF n = 0 \/ (t[3] = 0 /\ t[4] = 0) THEN t
    ELSE IF n = 1 THEN TransformInput(<<"MouseWheelScrolled", "VerticalWheel", 1>>, t)
    ELSE ZoomedInFrom(ZoomedInFrom(t, n \div 2), n - (n \div 2))

ZoomedIn(n) == ZoomedInFrom(DefaultTransform, n)

StartDepths == {0, DeepStart}

IsPan(ev) == ev[1] = "KeyPressed" /\ ev[2] \in ArrowKeys

HandleEvent ==
    /\ pc = "events"
    /\ events < MaxInputEvents
    /\ \E ev \in TransformEvents :
          /\ IsPan(ev) => pans < MaxPans
          /\ LET t == TransformInput(ev, <<center_x, center_y, set_w, set_h>>)
             IN  /\ center_x' = t[1]
                 /\ center_y' = t[2]
                 /\ set_w' = t[3]
                 /\ set_h' = t[4]
          /\ zin_from' = ZinFrom(ev)
          /\ zio_from' = ZioFrom(ev)
          /\ pans' = IF IsPan(ev) THEN pans + 1 ELSE pans
    /\ events' = events + 1
    /\ UNCHANGED <<startupVars, color_table, calls, loopVars, frameVars, buffer, pc>>

InitInput ==
    /\ pc = "events"
    /\ IdleStartup
    /\ color_table = RenderTable
    /\ \E n \in StartDepths :
          /\ center_x = ZoomedIn(n)[1]
          /\ center_y = ZoomedIn(n)[2]
          /\ set_w = ZoomedIn(n)[3]
          /\ set_h = ZoomedIn(n)[4]
    /\ IdleInput
    /\ calls = 0
    /\ IdleLoop
    /\ IdleFrame
    /\ buffer = ZeroBuffer

NextInput == HandleEvent

SpecInput == InitInput /\ [][NextInput]_vars

(***************************************************************************)
(* One call of set_pixels, from a Transform that events can produce.       *)
(***************************************************************************)
MaxRenderEvents == 1

InitRender ==
    /\ pc = "sp_entry"
    /\ IdleStartup
    /\ color_table = RenderTable
    /\ \E t \in ReachableTransforms(MaxRenderEvents) :
          /\ center_x = t[1]
          /\ center_y = t[2]
          /\ set_w = t[3]
          /\ set_h = t[4]
    /\ IdleInput
    /\ calls = 1
    /\ IdleLoop
    /\ IdleFrame
    /\ buffer = ZeroBuffer

NextRender == SetPixelsEntry \/ RowBegin \/ BatchBegin \/ LoopIter \/ WritePixel

SpecRender == InitRender /\ [][NextRender]_vars

(***************************************************************************)
(* The lockstep loop on one batch: 8 starting points base + k * dx on one  *)
(* row y0, laid out as set_pixels lays them out.                           *)
(***************************************************************************)
MaxBase == 5

MaxDelta == 2

MaxY0 == 2

BatchBases ==
    {FDiv(FInt(n), FInt(2)) : n \in (-MaxBase) .. MaxBase} \cup {FSub(RMAX, FInt(7))}

BatchDeltas == {FDiv(FInt(k), FInt(4)) : k \in 0 .. MaxDelta} \cup {FInt(1)}

BatchY0s == {FDiv(FInt(j), FInt(2)) : j \in 0 .. MaxY0}

InitBatch ==
    /\ pc = "sp_batch"
    /\ IdleStartup
    /\ color_table = RenderTable
    /\ center_x = CENTER_X
    /\ center_y = CENTER_Y
    /\ set_w = SET_W
    /\ set_h = SET_H
    /\ IdleInput
    /\ calls = 1
    /\ IdleLoop
    /\ y = 0
    /\ x = 0
    /\ y0 \in BatchY0s
    /\ \E base \in BatchBases, dx \in BatchDeltas : x0 = BatchX0(base, dx)
    /\ lane = -1
    /\ lastN = 0
    /\ buf = 0
    /\ wlog = <<>>
    /\ oob = FALSE
    /\ buffer = ZeroBuffer

NextBatch == BatchBegin \/ LoopIter

SpecBatch == InitBatch /\ [][NextBatch]_vars


(***************************************************************************)
(* The escape engine's claims (SpecBatch).                                 *)
(***************************************************************************)
\* iterate(x0, y0, n_max, r_max) as spec.md 4.3 words it: escape when
\* x2 + y2 > r_max^2, return the iterations completed, n_max with no escape.
\* One repetition, on <<x_i, y_i, iterations completed, whether it has returned>>.
IterateStep(s, x0s, y0s, n_max, r_max) ==
    LET x2 == FMul(s[1], s[1])
        y2 == FMul(s[2], s[2])
        xy == FMul(s[1], s[2])
    IN  IF s[4] \/ s[3] = n_max THEN <<s[1], s[2], s[3], TRUE>>
        ELSE IF FGt(FAdd(x2, y2), FMul(r_max, r_max)) THEN <<s[1], s[2], s[3], TRUE>>
        ELSE <<FAdd(FSub(x2, y2), x0s), FAdd(FMul(TWO, xy), y0s), s[3] + 1, FALSE>>

\* k repetitions, halved so that the evaluation stays shallow.
RECURSIVE IterateSteps(_, _, _, _, _, _)
IterateSteps(s, k, x0s, y0s, n_max, r_max) ==
    IF s[4] \/ k = 0 THEN s
    ELSE IF k = 1 THEN IterateStep(s, x0s, y0s, n_max, r_max)
    ELSE IterateSteps(IterateSteps(s, k \div 2, x0s, y0s, n_max, r_max), k - (k \div 2),
                      x0s, y0s, n_max, r_max)

Iterate(x0s, y0s, n_max, r_max) ==
    IterateSteps(<<x0s, y0s, 0, FALSE>>, n_max, x0s, y0s, n_max, r_max)[3]

\* C1: when the lockstep loop has exited, every lane's count N equals the
\* scalar iterate(x0_i, y0, NMAX, RMAX) of the spec.
C1_BatchEqualsIterate ==
    pc = "sp_write" => \A i \in Lanes : N[i] = Iterate(x0[i], y0, NMAX, RMAX)

\* C2: the lockstep loop makes at most NMAX passes, does not go on once all 8
\* lanes have escaped, and exits with every N in [0, NMAX], N = NMAX only for
\* a lane that never escaped.
C2_LoopTerminates ==
    /\ iters <= NMAX
    /\ \A i \in Lanes : N[i] \in 0 .. NMAX
    /\ pc = "sp_loop" => (iters < NMAX /\ escaped # Lanes)
    /\ pc = "sp_write" =>
          /\ escaped = Lanes \/ iters = NMAX
          /\ \A i \in Lanes : N[i] = NMAX => i \notin escaped

C2_Witness ==
    /\ pc = "sp_write"
    /\ iters = NMAX
    /\ escaped # {}
    /\ \E i \in Lanes : N[i] = NMAX
    /\ \E i \in Lanes : N[i] > 0 /\ N[i] < NMAX

\* C10, count and point: in a pass of the lockstep loop, a lane whose escape test is
\* true keeps its count and its (x_i, y_i).
C10_EscapedLaneFrozen ==
    [][pc = "sp_loop" =>
         \A i \in Lanes : ~Res1(x_i, y_i)[i] =>
              (N'[i] = N[i] /\ x_i'[i] = x_i[i] /\ y_i'[i] = y_i[i])]_vars

\* C10, count only: in a pass of the lockstep loop, a lane whose escape test is
\* true keeps its count, and a lane whose escape test has been true is never
\* active again in the batch.
C10_EscapedLaneCountFrozen ==
    /\ [](pc = "sp_loop" => \A i \in escaped : ~Res1(x_i, y_i)[i])
    /\ [][pc = "sp_loop" => \A i \in Lanes : ~Res1(x_i, y_i)[i] => N'[i] = N[i]]_vars

C10_Witness ==
    /\ pc = "sp_loop"
    /\ iters >= 2
    /\ \E i \in escaped : x_i[i] # x0[i] /\ N[i] > 0
    /\ \E i \in Lanes : i \notin escaped

(***************************************************************************)
(* The frame's claims (SpecRender).                                        *)
(***************************************************************************)
\* The count the lockstep loop leaves in a lane that starts at (x0s, y0s).
\* One pass, on <<x_i, y_i, N, whether the lane's count is final>>.
LanePass(s, x0s, y0s) ==
    LET x2 == FMul(s[1], s[1])
        y2 == FMul(s[2], s[2])
        xy == FMul(s[1], s[2])
    IN  IF s[4] THEN s
        ELSE IF ~FLt(FAdd(x2, y2), FMul(RMAX, RMAX)) THEN <<s[1], s[2], s[3], TRUE>>
        ELSE IF s[3] + 1 = NMAX THEN <<s[1], s[2], NMAX, TRUE>>
        ELSE <<FAdd(FSub(x2, y2), x0s), FAdd(FMul(xy, TWO), y0s), s[3] + 1, FALSE>>

RECURSIVE LanePasses(_, _, _, _)
LanePasses(s, k, x0s, y0s) ==
    IF s[4] \/ k = 0 THEN s
    ELSE IF k = 1 THEN LanePass(s, x0s, y0s)
    ELSE LanePasses(LanePasses(s, k \div 2, x0s, y0s), k - (k \div 2), x0s, y0s)

LaneCount(x0s, y0s) == LanePasses(<<x0s, y0s, 0, FALSE>>, NMAX, x0s, y0s)[3]

\* The color the claims give to a count: the palette entry at n mod
\* POSSIBLE_COLORS for 0 < n < NMAX, black otherwise, alpha 255.
ClaimedColor(n) ==
    IF 0 < n /\ n < NMAX
    THEN <<color_table[(n % POSSIBLE_COLORS) + 1][1], color_table[(n % POSSIBLE_COLORS) + 1][2],
           color_table[(n % POSSIBLE_COLORS) + 1][3], 255>>
    ELSE <<0, 0, 0, 255>>

PixelAt(col, row) == [k \in 1 .. 4 |-> buffer[(4 * ((row * SCREEN_W) + col)) + k]]

\* The coordinates of a pixel in closed form, as the spec gives them.
ClosedX0(col) == FAdd(FSub(center_x, FMul(HALF, set_w)), FMul(FInt(col), DeltaX(set_w)))

ClosedY0(row) == FAdd(FSub(center_y, FMul(HALF, set_h)), FMul(FInt(row), DeltaY(set_h)))

\* The coordinates of a pixel as repeated float additions reach them: 8 * delta_x
\* added per batch to the first batch's lanes, delta_y added per row.
RECURSIVE SteppedX0(_)
SteppedX0(col) ==
    IF col < LANES
    THEN FAdd(FSub(center_x, FMul(HALF, set_w)),
              IF col = 0 THEN 0 ELSE FMul(FInt(col), DeltaX(set_w)))
    ELSE FAdd(SteppedX0(col - LANES), FMul(EIGHT, DeltaX(set_w)))

RECURSIVE SteppedY0(_)
SteppedY0(row) ==
    IF row = 0 THEN FSub(center_y, FMul(HALF, set_h))
    ELSE FAdd(SteppedY0(row - 1), DeltaY(set_h))

\* C3, closed form: after set_pixels, every pixel (x, y) holds the color of the
\* count of x0 = center_x - 0.5*set_w + x*delta_x, y0 = center_y - 0.5*set_h + y*delta_y.
C3_PixelsOfClosedForm ==
    pc = "sp_done" =>
        \A row \in 0 .. (SCREEN_H - 1), col \in 0 .. (SCREEN_W - 1) :
            PixelAt(col, row) = ClaimedColor(LaneCount(ClosedX0(col), ClosedY0(row)))

\* C3, stepped coordinates: after set_pixels, every pixel (x, y) holds the color of the
\* count of its own lane, whose x0 and y0 are reached by repeated float addition
\* of 8*delta_x per batch and delta_y per row.
C3_PixelsOfSteppedCoordinates ==
    pc = "sp_done" =>
        \A row \in 0 .. (SCREEN_H - 1), col \in 0 .. (SCREEN_W - 1) :
            PixelAt(col, row) = ClaimedColor(LaneCount(SteppedX0(col), SteppedY0(row)))

C3_Witness ==
    /\ pc = "sp_done"
    /\ \E row \in 0 .. (SCREEN_H - 1), col \in 0 .. (SCREEN_W - 2) :
          /\ col % LANES < LANES - 1
          /\ PixelAt(col, row) # PixelAt(col + 1, row)
          /\ PixelAt(col, row) # <<0, 0, 0, 255>>

\* C4: set_pixels writes the pixel slots one after the other from offset 0,
\* each once, never at or past BUFFER_SIZE, a batch starting at 4*(y*SCREEN_W + x),
\* and has written all SCREEN_W*SCREEN_H of them when it returns.
C4_EverySlotOnce ==
    /\ ~oob
    /\ \A k \in 1 .. Len(wlog) : wlog[k] = 4 * (k - 1) /\ wlog[k] + 4 <= BUFFER_SIZE
    /\ pc = "sp_loop" => buf = 4 * ((y * SCREEN_W) + x)
    /\ pc = "sp_done" => Len(wlog) = SCREEN_W * SCREEN_H

C4_Witness == pc = "sp_done" /\ Len(wlog) = SCREEN_W * SCREEN_H /\ buf = BUFFER_SIZE

WellFormed(f) ==
    /\ Len(f) >= 3 * POSSIBLE_COLORS
    /\ \A k \in 1 .. (3 * POSSIBLE_COLORS) : f[k][1] = "num" /\ f[k][2] \in 0 .. 255

\* load_color_table has returned from its loop or after it, and its caller has
\* not gone on: file is still the file it read.
LoadReturned == pc = "alloc_fps" \/ (pc = "returned" /\ lct_ret = INVALID_FORMAT)

\* C6: when the opened file does not yield POSSIBLE_COLORS well-formed
\* triples, load_color_table returns INVALID_FORMAT and leaves a null table.
C6_MalformedFileRejected ==
    (LoadReturned /\ ~WellFormed(file)) => (lct_ret = INVALID_FORMAT /\ color_table = NULL)

\* draw_mandelbrot returned from one of its startup checks: the table was not
\* loaded, or it was and is still allocated (the loop's exit frees it).
StartupFailed == pc = "returned" /\ (lct_ret # OK \/ color_table # NULL)

\* C7: a run that ends in a startup check returns non-zero, never opened a
\* window and never called set_pixels.
C7_StartupFailureBeforeDisplay ==
    StartupFailed => (ret # OK /\ ~opened /\ calls = 0)

(***************************************************************************)
(* The Transform's claims (SpecInput).                                     *)
(***************************************************************************)
\* C8: set_w > 0 and set_h > 0 after any sequence of events.
C8_ExtentPositive == FGt(set_w, 0) /\ FGt(set_h, 0)

\* C9: a zoom-in immediately followed by a zoom-out leaves the Transform as
\* it was before the two.
C9_ZoomInOutRestores ==
    zio_from # NULL => <<center_x, center_y, set_w, set_h>> = zio_from

====
